---- MODULE Spec2Model ----
(***************************************************************************)
(* Model of Car_to_Bicyclist_Failed.py: the co-simulation step loop of an  *)
(* AEB scenario (ego car against a crossing cyclist).                      *)
(*                                                                         *)
(* Units.  Distances, velocities and the values on the wire are held in    *)
(* tenths (25 is 2.5 m, 8 is 0.8).  Quantities the program computes by     *)
(* arithmetic (Deceleration, throttle, brake) are exact rationals          *)
(* [n |-> numerator, d |-> denominator > 0] in lowest terms.               *)
(* sim_time is counted in steps of 0.05 s (variable tick).                 *)
(***************************************************************************)
EXTENDS Integers, Sequences, FiniteSets, TLC

VARIABLES
    pc,                 \* position of main(): "init", "setup_tcp", "loop", "finally", "done"
    world,              \* main's world is assigned (line 314)
    conn,               \* main's conn: "None" or "socket"
    sock,               \* main's sock: "None" or "socket"
    tcp_active,         \* main's tcp_active (line 326)
    accept_calls,       \* number of sock.accept() calls made so far (line 30)
    quit_pending,       \* a pygame.QUIT event is waiting in the event queue
    tick,               \* number of times line 356 has run: sim_time = tick * 0.05
    collision,          \* main's collision flag (line 336)
    distance,           \* distance read in the current iteration (line 360), tenths of m
    relative_velocity,  \* ego_speed - cyclist_speed (line 365), tenths of m/s
    send_result,        \* what conn.sendall did in the current iteration
    recv_result,        \* what conn.recv did in the current iteration
    sim_data,           \* the command frame the iteration resolved
    ctrl,               \* the last control given to ego.apply_control (line 392)
    exc,                \* the exception that ended the try block, "none" if none
    ttc,                \* the last value of calculate_ttc (line 366)
    listen_open,        \* the listening socket of line 24 exists and is not closed
    conn_open,          \* the accepted connection of line 30 exists and is not closed
    actors_alive,       \* vehicle actors spawned by this run exist in the world
    stream,             \* what the controller wrote and receive_data has not read yet
    frames_sent,        \* number of frames the controller has written
    rd_kind,            \* how the last receive_data call ended
    rd_values,          \* the 8-byte values the last receive_data call unpacked
    rd_waited           \* time the last receive_data call spent blocked in recv, ms

mainVars == <<pc, world, conn, sock, tcp_active, accept_calls, quit_pending, tick,
              collision, distance, relative_velocity, send_result, recv_result,
              sim_data, ctrl, exc>>

resVars == <<listen_open, conn_open, actors_alive>>

recvVars == <<stream, frames_sent, rd_kind, rd_values, rd_waited>>

vars == <<mainVars, ttc, resVars, recvVars>>

----------------------------------------------------------------------------
(* Bounds of the model *)

\* the loop is followed for MaxTick iterations
MaxTick == 41

\* calculate_ttc is applied to distances 0..TtcMaxDistance and relative
\* velocities -TtcMaxVel..TtcMaxVel
TtcMaxDistance == 10
TtcMaxVel == 4

\* the controller writes at most MaxFrames frames
MaxFrames == 3

----------------------------------------------------------------------------
(* Exact rational arithmetic *)

Abs(x) == IF x < 0 THEN -x ELSE x

RECURSIVE Gcd(_, _)
Gcd(a, b) == IF b = 0 THEN a ELSE Gcd(b, a % b)

\* the rational n/d (d # 0) in lowest terms with a positive denominator
Rat(n, d) ==
    LET g == Gcd(Abs(n), Abs(d))
        s == IF d < 0 THEN -1 ELSE 1
    IN  [n |-> (s * n) \div g, d |-> (s * d) \div g]

Tenths(x) == Rat(x, 10)

RLess(a, b) == a.n * b.d < b.n * a.d
RLeq(a, b) == a.n * b.d <= b.n * a.d
RSub(a, b) == Rat(a.n * b.d - b.n * a.d, a.d * b.d)
\* Python's min(a, b) and max(a, b): the first argument unless the second is
\* strictly smaller (larger)
RMin(a, b) == IF RLess(b, a) THEN b ELSE a
RMax(a, b) == IF RLess(a, b) THEN b ELSE a

Zero == Tenths(0)
One == Tenths(10)

----------------------------------------------------------------------------
(* Constants of the program, in tenths *)

COLLISION_DISTANCE == 25
BRAKE_DISTANCE == 80
WARN_DISTANCE == 150
BRAKE_DISTANCE_REF == 150
DECEL_CAP == 8
BASE_THROTTLE == 5
DECEL_FACTOR_CAP == 8
MIN_THROTTLE == 6
BRAKE_CAP == 8

\* sim_time > 2.0 holds from this iteration on: sim_time is a double that
\* accumulates 0.05 per iteration, and the 40th partial sum is
\* 2.000000000000001 (the 39th is 1.950000000000001)
WARMUP_TICK == 40

----------------------------------------------------------------------------
(* Inputs the environment can give in one iteration *)

\* distances the world can report (tenths of a metre): 0, both sides of
\* 2.5 m, 6 m, both sides of 8 m, 15 m
Distances == {0, 24, 25, 60, 79, 80, 150}

\* relative velocities (tenths of m/s)
RelVels == {0, 20}

\* a frame on the wire: five doubles, each given in tenths, in the order
\* egoCarStop, FCW_Activate, Deceleration, AEB_Status, Emergency_Brake
WireFrames == {
    <<0, 0, 0, 0, 0>>,
    <<0, 10, 5, 10, 0>>,
    <<0, 10, 10, 10, 10>>,
    <<10, 0, 0, 0, 0>>,
    <<0, 0, -10, 0, 0>>,
    <<0, 5, 20, 6, 4>> }

\* conn.sendall either sends everything or raises (broken pipe, reset)
SendResults == {"ok", "error"}

\* the five conn.recv(8) calls of one receive_data call: five whole values,
\* socket.timeout, or anything else (peer closed, short packet, socket error)
RecvResults ==
    {[kind |-> "timeout", data |-> <<>>], [kind |-> "error", data |-> <<>>]}
    \cup {[kind |-> "frame", data |-> f] : f \in WireFrames}

\* what the link can do in one iteration: <<send result, receive result>>;
\* after a failed send no frame comes back
LinkEvents ==
    {<<"ok", r>> : r \in RecvResults}
    \cup {<<"error", r>> : r \in {x \in RecvResults : x.kind # "frame"}}

----------------------------------------------------------------------------
(* The functions of the program *)

\* float('inf')
TtcInf == [inf |-> TRUE, val |-> Zero]

\* calculate_ttc, were the test relative_velocity < 0 and a relative velocity
\* of 0 given a time of 0
calculate_ttc_StrictTest(dist, rv) ==
    IF rv < 0 THEN TtcInf
    ELSE IF rv = 0 THEN [inf |-> FALSE, val |-> Zero]
    ELSE [inf |-> FALSE, val |-> Rat(dist, rv)]

\* calculate_ttc (lines 17-21)
calculate_ttc(dist, rv) ==
    IF rv <= 0 THEN TtcInf
    ELSE [inf |-> FALSE, val |-> Rat(dist, rv)]

\* Python's round() of x/10: to the nearest integer, halves to the even one
Round(x) ==
    LET q == x \div 10
        r == x % 10
    IN  IF r < 5 THEN q
        ELSE IF r > 5 THEN q + 1
        ELSE IF q % 2 = 0 THEN q ELSE q + 1

\* bool(round(x))
BoolRound(x) == Round(x) # 0

default_sim_data ==
    [egoCarStop |-> FALSE, FCW_Activate |-> FALSE, Deceleration |-> Zero,
     AEB_Status |-> FALSE, Emergency_Brake |-> FALSE]

\* send_data: every exception of sendall is caught and printed; nothing is
\* raised to the caller and nothing is returned
send_data(result) == [raised |-> FALSE]

\* receive_data on socket.timeout, were it to return the last values instead
\* of the default ones
ReceiveTimeoutLastValues == sim_data

\* receive_data on socket.timeout (lines 64-72)
ReceiveTimeout == default_sim_data

\* receive_data: the decoded frame, or the default frame on a timeout and on
\* any other exception; nothing is raised to the caller
receive_data(result) ==
    IF result.kind = "frame"
    THEN [raised |-> FALSE,
          sim_data |-> [egoCarStop      |-> BoolRound(result.data[1]),
                        FCW_Activate    |-> BoolRound(result.data[2]),
                        Deceleration    |-> Tenths(result.data[3]),
                        AEB_Status      |-> BoolRound(result.data[4]),
                        Emergency_Brake |-> BoolRound(result.data[5])]]
    ELSE IF result.kind = "timeout"
    THEN [raised |-> FALSE, sim_data |-> ReceiveTimeout]
    ELSE [raised |-> FALSE, sim_data |-> default_sim_data]

\* the local policy of main, were the cap of 0.8 on Deceleration forgotten
FallbackDecisionUncapped(dist, rv) ==
    IF dist < WARN_DISTANCE /\ rv > 0
    THEN IF dist < BRAKE_DISTANCE
         THEN IF dist = 0
              THEN [raised |-> TRUE,
                    sim_data |-> [default_sim_data EXCEPT
                                    !.AEB_Status = TRUE, !.Emergency_Brake = TRUE]]
              ELSE [raised |-> FALSE,
                    sim_data |-> [default_sim_data EXCEPT
                                    !.AEB_Status = TRUE, !.Emergency_Brake = TRUE,
                                    !.Deceleration = Rat(BRAKE_DISTANCE_REF, dist)]]
         ELSE [raised |-> FALSE,
               sim_data |-> [default_sim_data EXCEPT !.AEB_Status = TRUE]]
    ELSE [raised |-> FALSE, sim_data |-> default_sim_data]

\* the local policy of main (lines 383-389).  raised: 15.0/distance raised
\* ZeroDivisionError; sim_data is then the frame as it stood at line 389
FallbackDecision(dist, rv) ==
    IF dist < WARN_DISTANCE /\ rv > 0
    THEN IF dist < BRAKE_DISTANCE
         THEN IF dist = 0
              THEN [raised |-> TRUE,
                    sim_data |-> [default_sim_data EXCEPT
                                    !.AEB_Status = TRUE, !.Emergency_Brake = TRUE]]
              ELSE [raised |-> FALSE,
                    sim_data |-> [default_sim_data EXCEPT
                                    !.AEB_Status = TRUE, !.Emergency_Brake = TRUE,
                                    !.Deceleration =
                                        RMin(Tenths(DECEL_CAP), Rat(BRAKE_DISTANCE_REF, dist))]]
         ELSE [raised |-> FALSE,
               sim_data |-> [default_sim_data EXCEPT !.AEB_Status = TRUE]]
    ELSE [raised |-> FALSE, sim_data |-> default_sim_data]

FullBrake == [throttle |-> Zero, brake |-> One, steer |-> Zero]

\* control_ego, were the hold at full brake during the warm-up left out
control_ego_NoWarmup(t, data, coll) ==
    IF data.Emergency_Brake \/ data.egoCarStop \/ coll
    THEN FullBrake
    ELSE LET decel_factor == RMin(Tenths(DECEL_FACTOR_CAP), data.Deceleration)
         IN  [throttle |-> RMax(Tenths(MIN_THROTTLE), RSub(Tenths(BASE_THROTTLE), decel_factor)),
              brake    |-> RMin(Tenths(BRAKE_CAP), decel_factor),
              steer    |-> Zero]

\* control_ego, were the collision flag left out of its first test
control_ego_IgnoresCollision(t, data, coll) ==
    IF data.Emergency_Brake \/ data.egoCarStop
    THEN FullBrake
    ELSE IF t >= WARMUP_TICK
    THEN LET decel_factor == RMin(Tenths(DECEL_FACTOR_CAP), data.Deceleration)
         IN  [throttle |-> RMax(Tenths(MIN_THROTTLE), RSub(Tenths(BASE_THROTTLE), decel_factor)),
              brake    |-> RMin(Tenths(BRAKE_CAP), decel_factor),
              steer    |-> Zero]
    ELSE FullBrake

\* control_ego, were the throttle floored at 0 so that braking cuts it
control_ego_ThrottleCut(t, data, coll) ==
    IF data.Emergency_Brake \/ data.egoCarStop \/ coll
    THEN FullBrake
    ELSE IF t >= WARMUP_TICK
    THEN LET decel_factor == RMin(Tenths(DECEL_FACTOR_CAP), data.Deceleration)
         IN  [throttle |-> RMax(Zero, RSub(Tenths(BASE_THROTTLE), decel_factor)),
              brake    |-> RMin(Tenths(BRAKE_CAP), decel_factor),
              steer    |-> Zero]
    ELSE FullBrake

\* control_ego (lines 171-187); t is sim_time in steps of 0.05 s
control_ego(t, data, coll) ==
    IF data.Emergency_Brake \/ data.egoCarStop \/ coll
    THEN FullBrake
    ELSE IF t >= WARMUP_TICK
    THEN LET decel_factor == RMin(Tenths(DECEL_FACTOR_CAP), data.Deceleration)
         IN  [throttle |-> RMax(Tenths(MIN_THROTTLE), RSub(Tenths(BASE_THROTTLE), decel_factor)),
              brake    |-> RMin(Tenths(BRAKE_CAP), decel_factor),
              steer    |-> Zero]
    ELSE FullBrake

\* the collision flag, were it recomputed from the distance in every iteration
LatchCollisionNotSticky(dist, coll) == dist < COLLISION_DISTANCE

\* the collision latch (lines 394-396)
LatchCollision(dist, coll) == coll \/ dist < COLLISION_DISTANCE

----------------------------------------------------------------------------
(* The state machine of main() *)

NoRecv == [kind |-> "none", data |-> <<>>]

\* the values every run starts with, but for pc and the world reading
InitRest ==
    /\ world = FALSE
    /\ conn = "None"
    /\ sock = "None"
    /\ tcp_active = FALSE
    /\ accept_calls = 0
    /\ quit_pending = FALSE
    /\ tick = 0
    /\ collision = FALSE
    /\ send_result = "none"
    /\ recv_result = NoRecv
    /\ sim_data = default_sim_data
    /\ ctrl = [throttle |-> Zero, brake |-> Zero, steer |-> Zero]
    /\ exc = "none"
    /\ ttc = TtcInf
    /\ listen_open = FALSE
    /\ conn_open = FALSE
    /\ actors_alive = FALSE
    /\ stream = <<>>
    /\ frames_sent = 0
    /\ rd_kind = "none"
    /\ rd_values = <<>>
    /\ rd_waited = 0

Init ==
    /\ pc = "init"
    /\ distance = 0
    /\ relative_velocity = 0
    /\ InitRest

\* lines 308-322: pygame and CARLA are set up and the actors spawned; any of
\* these calls may raise: before world is assigned, after it and before an
\* actor is spawned, or between the two spawns of spawn_actors
InitializeCarla ==
    /\ pc = "init"
    /\ \E outcome \in {"ok", "no_world", "no_actors", "ego_only"} :
          /\ world' = (outcome # "no_world")
          /\ actors_alive' = (outcome \in {"ok", "ego_only"})
          /\ pc' = IF outcome = "ok" THEN "setup_tcp" ELSE "finally"
          /\ exc' = IF outcome = "ok" THEN "none" ELSE "RuntimeError"
    /\ UNCHANGED <<conn, sock, tcp_active, accept_calls, quit_pending, tick,
                   collision, distance, relative_velocity, send_result,
                   recv_result, sim_data, ctrl>>
    /\ UNCHANGED <<ttc, listen_open, conn_open, recvVars>>

\* setup_tcp_server, were it called again from the loop while there is no
\* connection
SetupTcpServerRetry ==
    /\ \/ pc = "setup_tcp"
       \/ pc = "loop" /\ conn = "None" /\ ~quit_pending
    /\ \E outcome \in {"ok", "bind_failed", "accept_failed"} :
          /\ conn' = IF outcome = "ok" THEN "socket" ELSE "None"
          /\ sock' = IF outcome = "ok" THEN "socket" ELSE "None"
          /\ tcp_active' = (outcome = "ok")
          /\ accept_calls' = IF outcome = "bind_failed" THEN accept_calls
                                                       ELSE accept_calls + 1
          /\ pc' = IF outcome = "bind_failed" THEN "finally" ELSE "loop"
          /\ exc' = IF outcome = "bind_failed" THEN "OSError" ELSE "none"
          /\ conn_open' = (outcome = "ok")
          /\ listen_open' \in IF outcome = "bind_failed" THEN BOOLEAN
                                                          ELSE {outcome = "ok"}
    /\ UNCHANGED <<world, quit_pending, tick, collision, distance,
                   relative_velocity, send_result, recv_result, sim_data, ctrl>>
    /\ UNCHANGED <<ttc, actors_alive, recvVars>>

\* lines 325-326 with setup_tcp_server (lines 23-37): bind and listen are
\* outside the try block, so their OSError leaves main's try block; a failing
\* accept is caught, the listening socket closed (line 36) and (None, None)
\* returned.  After a failing bind no close is called on the socket of line
\* 24 and nothing refers to it any more: it stays open unless the
\* interpreter has finalised the object
SetupTcpServer ==
    /\ pc = "setup_tcp"
    /\ \E outcome \in {"ok", "bind_failed", "accept_failed"} :
          /\ conn' = IF outcome = "ok" THEN "socket" ELSE "None"
          /\ sock' = IF outcome = "ok" THEN "socket" ELSE "None"
          /\ tcp_active' = (outcome = "ok")
          /\ accept_calls' = IF outcome = "bind_failed" THEN accept_calls
                                                       ELSE accept_calls + 1
          /\ pc' = IF outcome = "bind_failed" THEN "finally" ELSE "loop"
          /\ exc' = IF outcome = "bind_failed" THEN "OSError" ELSE "none"
          /\ conn_open' = (outcome = "ok")
          /\ listen_open' \in IF outcome = "bind_failed" THEN BOOLEAN
                                                          ELSE {outcome = "ok"}
    /\ UNCHANGED <<world, quit_pending, tick, collision, distance,
                   relative_velocity, send_result, recv_result, sim_data, ctrl>>
    /\ UNCHANGED <<ttc, actors_alive, recvVars>>

\* the operator closes the HUD window: pygame queues a QUIT event
OperatorQuit ==
    /\ pc = "loop"
    /\ ~quit_pending
    /\ quit_pending' = TRUE
    /\ UNCHANGED <<pc, world, conn, sock, tcp_active, accept_calls, tick,
                   collision, distance, relative_velocity, send_result,
                   recv_result, sim_data, ctrl, exc>>
    /\ UNCHANGED <<ttc, resVars, recvVars>>

\* the iteration, were it to drop the QUIT event and carry on
LoopQuitIgnored ==
    /\ pc = "loop"
    /\ quit_pending
    /\ quit_pending' = FALSE
    /\ UNCHANGED <<pc, world, conn, sock, tcp_active, accept_calls,
                   tick, collision, distance, relative_velocity, send_result,
                   recv_result, sim_data, ctrl, exc>>
    /\ UNCHANGED <<ttc, resVars, recvVars>>

\* lines 351-353: the iteration finds the QUIT event and main returns
LoopQuit ==
    /\ pc = "loop"
    /\ quit_pending
    /\ pc' = "finally"
    /\ UNCHANGED <<world, conn, sock, tcp_active, accept_calls, quit_pending,
                   tick, collision, distance, relative_velocity, send_result,
                   recv_result, sim_data, ctrl, exc>>
    /\ UNCHANGED <<ttc, resVars, recvVars>>

\* the command frame of the iteration, were the local policy also used when
\* the receive of a connected link times out
ResolveDecisionLocalOnTimeout(dist, rv, s, r) ==
    IF tcp_active /\ conn # "None" /\ r.kind # "timeout"
    THEN LET snd == send_data(s)
             rcv == IF snd.raised THEN snd ELSE receive_data(r)
         IN  IF snd.raised \/ rcv.raised
             THEN [raised |-> FALSE, tcp_active |-> FALSE, sim_data |-> default_sim_data]
             ELSE [raised |-> FALSE, tcp_active |-> tcp_active, sim_data |-> rcv.sim_data]
    ELSE LET fb == FallbackDecision(dist, rv)
         IN  [raised |-> fb.raised, tcp_active |-> tcp_active, sim_data |-> fb.sim_data]

\* lines 369-389: the command frame of the iteration.  raised: an exception
\* left the block (and so main's try block)
ResolveDecision(dist, rv, s, r) ==
    IF tcp_active /\ conn # "None"
    THEN LET snd == send_data(s)
             rcv == IF snd.raised THEN snd ELSE receive_data(r)
         IN  IF snd.raised \/ rcv.raised
             THEN [raised |-> FALSE, tcp_active |-> FALSE, sim_data |-> default_sim_data]
             ELSE [raised |-> FALSE, tcp_active |-> tcp_active, sim_data |-> rcv.sim_data]
    ELSE LET fb == FallbackDecision(dist, rv)
         IN  [raised |-> fb.raised, tcp_active |-> tcp_active, sim_data |-> fb.sim_data]

\* one iteration of the loop without a QUIT event (lines 355-471)
Tick ==
    /\ pc = "loop"
    /\ ~quit_pending
    /\ tick < MaxTick
    /\ \E dist \in Distances, rv \in RelVels :
       \E ev \in IF tcp_active /\ conn # "None" THEN LinkEvents ELSE {<<"none", NoRecv>>} :
          LET s == ev[1]
              r == ev[2]
              dec == ResolveDecision(dist, rv, s, r)
          IN  /\ tick' = tick + 1
              /\ distance' = dist
              /\ relative_velocity' = rv
              /\ ttc' = calculate_ttc(dist, rv)
              /\ send_result' = s
              /\ recv_result' = r
              /\ tcp_active' = dec.tcp_active
              /\ sim_data' = dec.sim_data
              /\ IF dec.raised
                 THEN /\ pc' = "finally"
                      /\ exc' = "ZeroDivisionError"
                      /\ UNCHANGED <<ctrl, collision>>
                 ELSE /\ ctrl' = control_ego(tick + 1, dec.sim_data, collision)
                      /\ collision' = LatchCollision(dist, collision)
                      /\ UNCHANGED <<pc, exc>>
    /\ UNCHANGED <<world, conn, sock, accept_calls, quit_pending>>
    /\ UNCHANGED <<resVars, recvVars>>

\* world.tick() raises (line 355): the simulator is gone or timed out
TickWorldError ==
    /\ pc = "loop"
    /\ ~quit_pending
    /\ pc' = "finally"
    /\ exc' = "RuntimeError"
    /\ UNCHANGED <<world, conn, sock, tcp_active, accept_calls, quit_pending,
                   tick, collision, distance, relative_velocity, send_result,
                   recv_result, sim_data, ctrl>>
    /\ UNCHANGED <<ttc, resVars, recvVars>>

\* Ctrl-C between two iterations (line 473)
KeyboardInterrupt ==
    /\ pc = "loop"
    /\ pc' = "finally"
    /\ exc' = "KeyboardInterrupt"
    /\ UNCHANGED <<world, conn, sock, tcp_active, accept_calls, quit_pending,
                   tick, collision, distance, relative_velocity, send_result,
                   recv_result, sim_data, ctrl>>
    /\ UNCHANGED <<ttc, resVars, recvVars>>

\* the calls of the cleanup (lines 482-488) that can raise in this state
CleanupFailures ==
    (IF conn # "None" THEN {"conn.close"} ELSE {})
    \cup (IF sock # "None" THEN {"sock.close"} ELSE {})
    \cup (IF world /\ actors_alive THEN {"actor.destroy"} ELSE {})

\* the finally block (lines 479-500): conn.close(), sock.close() and the
\* destruction of the vehicle actors run in this order inside one try block,
\* so the first of them that raises skips the ones after it
Finally ==
    /\ pc = "finally"
    /\ pc' = "done"
    /\ \E fail \in {"none"} \cup CleanupFailures :
          /\ conn_open' =
                IF conn # "None" /\ fail # "conn.close" THEN FALSE ELSE conn_open
          /\ listen_open' =
                IF sock # "None" /\ fail \notin {"conn.close", "sock.close"}
                THEN FALSE ELSE listen_open
          /\ actors_alive' =
                IF world /\ fail = "none" THEN FALSE ELSE actors_alive
    /\ UNCHANGED <<world, conn, sock, tcp_active, accept_calls, quit_pending,
                   tick, collision, distance, relative_velocity, send_result,
                   recv_result, sim_data, ctrl, exc>>
    /\ UNCHANGED <<ttc, recvVars>>

Next ==
    \/ InitializeCarla
    \/ SetupTcpServer
    \/ OperatorQuit
    \/ LoopQuit
    \/ Tick
    \/ TickWorldError
    \/ KeyboardInterrupt
    \/ Finally

Spec == Init /\ [][Next]_vars

----------------------------------------------------------------------------
(* calculate_ttc on its own: applied once to every pair of a distance in
   0..TtcMaxDistance and a relative velocity in -TtcMaxVel..TtcMaxVel *)

InitTtc ==
    /\ pc = "ttc_call"
    /\ distance \in 0..TtcMaxDistance
    /\ relative_velocity \in (0 - TtcMaxVel)..TtcMaxVel
    /\ InitRest

\* line 366: ttc = calculate_ttc(distance, relative_velocity)
CallTtc ==
    /\ pc = "ttc_call"
    /\ ttc' = calculate_ttc(distance, relative_velocity)
    /\ pc' = "ttc_done"
    /\ UNCHANGED <<world, conn, sock, tcp_active, accept_calls, quit_pending,
                   tick, collision, distance, relative_velocity, send_result,
                   recv_result, sim_data, ctrl, exc>>
    /\ UNCHANGED <<resVars, recvVars>>

NextTtc == CallTtc

SpecTtc == InitTtc /\ [][NextTtc]_vars

----------------------------------------------------------------------------
(* receive_data at the granularity of its recv(8) calls.  The controller
   writes frames of five 8-byte values; every value is followed here as two
   halves <<frame, field, half>>, so that a short read can split it.  stream
   is what was written and not read yet; when each part arrives is up to the
   network, so a recv may time out whatever stream holds *)

\* settimeout(0.05) of line 31, in ms
RECV_TIMEOUT == 50

\* range(5) of line 50
NUM_VALUES == 5

\* time a recv that returns data has waited for it, in ms: each below the
\* timeout
RecvWaits == {0, 40}

\* the ten halves of the f-th frame, in wire order
FrameBytes(f) == [j \in 1..(2 * NUM_VALUES) |-> <<f, (j + 1) \div 2, 2 - (j % 2)>>]

\* the five values of the f-th frame, each with its two halves
FrameValues(f) ==
    [i \in 1..NUM_VALUES |-> <<FrameBytes(f)[2 * i - 1], FrameBytes(f)[2 * i]>>]

RECURSIVE SumSeq(_)
SumSeq(q) == IF q = <<>> THEN 0 ELSE Head(q) + SumSeq(Tail(q))

InitRecv ==
    /\ pc = "recv"
    /\ distance = 0
    /\ relative_velocity = 0
    /\ InitRest

\* the controller writes one more frame
ControllerSend ==
    /\ pc = "recv"
    /\ frames_sent < MaxFrames
    /\ frames_sent' = frames_sent + 1
    /\ stream' = stream \o FrameBytes(frames_sent + 1)
    /\ UNCHANGED <<mainVars, ttc, resVars, rd_kind, rd_values, rd_waited>>

\* the ways the recv after k full chunks can end the call: the timeout of
\* line 31, fewer than 8 bytes (lines 52-53, "short"), or no byte at all
\* from a closed peer (lines 52-53, "closed"); a fifth full chunk ends it
\* with a frame
RecvEndings(k) ==
    IF k = NUM_VALUES THEN {"frame"}
    ELSE {"timeout"} \cup (IF Len(stream) > 2 * k THEN {"short"} ELSE {"closed"})

\* one call of receive_data (lines 47-81): k recv(8) calls return a full
\* chunk each, every one after a wait of its own below the timeout; the call
\* ends as RecvEndings says.  What the recv calls have read is gone from the
\* stream, whatever the ending: the next call starts where this one stopped
ReceiveData ==
    /\ pc = "recv"
    /\ \E k \in 0..NUM_VALUES :
          /\ 2 * k <= Len(stream)
          /\ \E ending \in RecvEndings(k), w \in [1..k -> RecvWaits] :
                LET used == 2 * k + (IF ending = "short" THEN 1 ELSE 0)
                IN  /\ rd_kind' = ending
                    /\ rd_values' = [j \in 1..k |-> <<stream[2 * j - 1], stream[2 * j]>>]
                    /\ stream' = SubSeq(stream, used + 1, Len(stream))
                    /\ rd_waited' = SumSeq(w)
                          + (IF ending = "timeout" THEN RECV_TIMEOUT ELSE 0)
    /\ UNCHANGED <<mainVars, ttc, resVars, frames_sent>>

NextRecv ==
    \/ ControllerSend
    \/ ReceiveData

SpecRecv == InitRecv /\ [][NextRecv]_vars

----------------------------------------------------------------------------
(* Vocabulary of the properties, in terms of the program's state *)

\* LinkState: Listening until setup_tcp_server has returned; then Connected
\* when the iteration takes the TCP branch of line 369, Degraded otherwise
LinkState ==
    IF pc \in {"init", "setup_tcp"} THEN "Listening"
    ELSE IF tcp_active /\ conn # "None" THEN "Connected"
    ELSE "Degraded"

\* the step is one iteration of the loop that read the world (line 360)
IterationStep == pc = "loop" /\ tick' = tick + 1

\* the link reported an I/O error in the last iteration
IOErrorSeen == send_result = "error" \/ recv_result.kind = "error"

AllFalseFrame ==
    [egoCarStop |-> FALSE, FCW_Activate |-> FALSE, Deceleration |-> Tenths(0),
     AEB_Status |-> FALSE, Emergency_Brake |-> FALSE]

InUnitRange(x) == RLeq(Tenths(0), x) /\ RLeq(x, Tenths(10))
InSteerRange(x) == RLeq(Tenths(-10), x) /\ RLeq(x, Tenths(10))

----------------------------------------------------------------------------
(* The claims *)

\* C1: the collision flag is a sticky latch: no step takes it from true to
\* false, and every iteration that ends having read a distance below 2.5 m
\* ends with the flag true.
C1_CollisionLatch ==
    [][ /\ collision => collision'
        /\ (IterationStep /\ pc' = "loop" /\ distance' < 25) => collision' ]_vars

\* C1 witness: the flag is still set at the end of a later iteration that
\* read a distance of 2.5 m or more.
C1_Witness ==
    pc = "loop" /\ tick >= 2 /\ collision /\ distance >= 25

\* C2: an I/O error on send or on receive puts the link in Degraded, and the
\* iteration after it resolves its frame with the local fallback policy.
C2_IOErrorDegrades ==
    [][ /\ (IterationStep /\ IOErrorSeen') => LinkState' = "Degraded"
        /\ (IterationStep /\ IOErrorSeen)
             => sim_data' = FallbackDecision(distance', relative_velocity').sim_data ]_vars

\* C3: once a receive has timed out, a later iteration after the warm-up in
\* which no frame arrives, the distance is below 8 m and the relative
\* velocity is positive commands throttle 0 and brake 1.
C3_SilentControllerBrakes ==
    [][ (/\ IterationStep
         /\ recv_result.kind = "timeout"
         /\ recv_result'.kind \in {"timeout", "none"}
         /\ tick' > 40
         /\ distance' < 80
         /\ relative_velocity' > 0)
        => (ctrl'.throttle = Tenths(0) /\ ctrl'.brake = Tenths(10)) ]_vars

\* C4: in an iteration with the link Degraded, distance < 15 m and relative
\* velocity > 0 give AEB_Status true; if also distance < 8 m, Emergency_Brake
\* is true and Deceleration is min(0.8, 8/distance) (wherever the quotient
\* exists); when distance >= 15 m or relative velocity <= 0 the frame is all
\* false with Deceleration 0.
C4_FallbackPolicy ==
    (tick > 0 /\ LinkState = "Degraded") =>
        /\ (distance < 150 /\ relative_velocity > 0) => sim_data.AEB_Status
        /\ (distance < 150 /\ relative_velocity > 0 /\ distance < 80) =>
              /\ sim_data.Emergency_Brake
              /\ distance > 0 =>
                    sim_data.Deceleration = RMin(Tenths(8), Rat(80, distance))
        /\ ~(distance < 150 /\ relative_velocity > 0) => sim_data = AllFalseFrame

\* C4 witness: the Degraded link at distance 6 m and relative velocity 2 m/s:
\* warning and emergency braking with Deceleration 0.8.
C4_Witness ==
    /\ pc = "loop" /\ tick > 0 /\ LinkState = "Degraded"
    /\ distance = 60 /\ relative_velocity = 20
    /\ sim_data.AEB_Status /\ sim_data.Emergency_Brake
    /\ sim_data.Deceleration = Tenths(8)

\* C5: every iteration that reads the world computes and applies one ego
\* command and goes on to the next iteration, whatever the inputs.
C5_EveryTickDecides ==
    [][ IterationStep =>
          /\ pc' = "loop"
          /\ ctrl' = control_ego(tick', sim_data', collision) ]_vars

\* C6: with the link Degraded and a positive relative velocity, when the
\* distance of one iteration is at most that of the one before (both within
\* 0..15 m) a Deceleration is produced that is at least the earlier one and
\* at most 0.8.
C6_MonotonicBraking ==
    [][ (/\ IterationStep
         /\ tick > 0
         /\ LinkState = "Degraded"
         /\ relative_velocity > 0 /\ relative_velocity' = relative_velocity
         /\ distance <= 150 /\ distance' <= distance)
        => /\ pc' = "loop"
           /\ RLeq(sim_data.Deceleration, sim_data'.Deceleration)
           /\ RLeq(sim_data'.Deceleration, Tenths(8)) ]_vars

\* C7: every command given to the ego vehicle has throttle in [0,1], brake
\* in [0,1] and steer in [-1,1].
C7_ActuatorRange ==
    /\ InUnitRange(ctrl.throttle)
    /\ InUnitRange(ctrl.brake)
    /\ InSteerRange(ctrl.steer)

\* C8: whatever setup_tcp_server meets (a failing bind, a failing accept),
\* the run enters the loop, and without a connection the link is Degraded.
C8_StartupFailureNotFatal ==
    [][ pc = "setup_tcp" =>
          /\ pc' = "loop"
          /\ conn' = "None" => LinkState' = "Degraded" ]_vars

\* C9: an iteration with the link Connected whose receive times out ends
\* with the all-false frame (Deceleration 0), gives the ego the command
\* computed from that frame, and the loop goes on.
C9_TimeoutNonFatal ==
    [][ (IterationStep /\ LinkState = "Connected" /\ recv_result'.kind = "timeout")
        => /\ sim_data' = AllFalseFrame
           /\ ctrl' = control_ego(tick', AllFalseFrame, collision)
           /\ pc' = "loop" ]_vars

\* C9 witness: after the warm-up, an iteration whose receive timed out has
\* driven the ego from the default frame (throttle 0.6, brake 0).
C9_Witness ==
    /\ pc = "loop" /\ LinkState = "Connected"
    /\ recv_result.kind = "timeout"
    /\ ~collision
    /\ sim_data = AllFalseFrame
    /\ ctrl.throttle = Tenths(6) /\ ctrl.brake = Tenths(0)

\* C10: a Degraded link stays Degraded in every later step, and accept is
\* called exactly once, before the loop.
C10_NoRecovery ==
    [][ /\ LinkState = "Degraded" => LinkState' = "Degraded"
        /\ pc \notin {"init", "setup_tcp"} => accept_calls' = accept_calls
        /\ accept_calls' <= 1
        /\ pc' = "loop" => accept_calls' = 1 ]_vars

\* C10 witness: the accept failed and the loop has run two iterations with
\* the link Degraded.
C10_Witness ==
    pc = "loop" /\ tick >= 2 /\ LinkState = "Degraded" /\ accept_calls = 1

\* C11: an iteration whose sim_time is not past 2.0 commands throttle 0 and
\* brake 1 whatever the frame; past 2.0, Emergency_Brake, egoCarStop or the
\* collision flag give throttle 0 and brake 1, and otherwise the command is
\* throttle max(0.6, 0.5 - Deceleration), brake min(0.8, Deceleration),
\* steer 0.
C11_ControlMapping ==
    [][ (IterationStep /\ pc' = "loop") =>
          IF tick' < WARMUP_TICK
          THEN ctrl'.throttle = Tenths(0) /\ ctrl'.brake = Tenths(10)
          ELSE IF sim_data'.Emergency_Brake \/ sim_data'.egoCarStop \/ collision
          THEN ctrl'.throttle = Tenths(0) /\ ctrl'.brake = Tenths(10)
          ELSE /\ ctrl'.throttle = RMax(Tenths(6), RSub(Tenths(5), sim_data'.Deceleration))
               /\ ctrl'.brake = RMin(Tenths(8), sim_data'.Deceleration)
               /\ ctrl'.steer = Tenths(0) ]_vars

\* C11 witness: past the warm-up, a frame without emergency and with
\* Deceleration 2.0 has given throttle 0.6 and brake 0.8.
C11_Witness ==
    /\ pc = "loop" /\ tick >= WARMUP_TICK
    /\ ~sim_data.Emergency_Brake /\ ~sim_data.egoCarStop
    /\ sim_data.Deceleration = Tenths(20)
    /\ ctrl.throttle = Tenths(6) /\ ctrl.brake = Tenths(8)

\* C12: when main is left, the listening socket and the accepted connection
\* are closed and every spawned actor is destroyed, whichever way the run
\* ended.
C12_ResourcesReleased ==
    pc = "done" => (~listen_open /\ ~conn_open /\ ~actors_alive)

\* C13: with the link Connected the command of an iteration is the one
\* control_ego gives for the received (or default) frame, the collision flag
\* and sim_time, and the frame is the one the iteration would have resolved
\* had it read 6 m and a closing speed of 2 m/s, where the local thresholds
\* would brake.  The iteration's own reading ranges over every distance and
\* relative velocity, so any two readings give the same frame and command.
C13_RemoteAuthoritative ==
    [][ (IterationStep /\ LinkState = "Connected") =>
          /\ pc' = "loop"
          /\ sim_data' = receive_data(recv_result').sim_data
          /\ ctrl' = control_ego(tick', sim_data', collision)
          /\ LET dec == ResolveDecision(60, 20, send_result', recv_result')
             IN  ~dec.raised /\ dec.sim_data = sim_data' ]_vars

\* C13 witness: Connected, past the warm-up, 6 m from the cyclist and
\* closing, a received frame without emergency: the ego keeps throttle 0.6.
C13_Witness ==
    /\ pc = "loop" /\ LinkState = "Connected"
    /\ distance = 60 /\ relative_velocity = 20
    /\ recv_result.kind = "frame"
    /\ ~sim_data.Emergency_Brake /\ ~sim_data.AEB_Status
    /\ ctrl.throttle = Tenths(6)

\* C14: with a QUIT event pending at the head of the loop the next step of
\* main leaves the loop for the teardown without a world step, a send, a
\* receive or an ego command; the event itself interrupts nothing.
C14_QuitWithinOneTick ==
    [][ /\ (pc = "loop" /\ quit_pending) =>
              /\ pc' = "finally"
              /\ tick' = tick /\ ctrl' = ctrl /\ collision' = collision
              /\ send_result' = send_result /\ recv_result' = recv_result
        /\ (~quit_pending /\ quit_pending') => (pc' = pc /\ tick' = tick) ]_vars

\* C14 witness: main has left the loop on a QUIT event after some iterations.
C14_Witness ==
    pc = "finally" /\ quit_pending /\ exc = "none" /\ tick >= 1

\* C15: calculate_ttc gives +infinity for every relative velocity <= 0,
\* whatever the distance, and the quotient distance / relative velocity for
\* every distance > 0 and relative velocity > 0.
C15_TtcContract ==
    pc = "ttc_done" =>
        /\ relative_velocity <= 0 => ttc.inf
        /\ (distance > 0 /\ relative_velocity > 0) =>
              /\ ~ttc.inf
              /\ ttc.val.d > 0
              /\ ttc.val.n * relative_velocity = distance * ttc.val.d

\* C15 witness: a relative velocity of 0 at a distance of 7 has given
\* +infinity.
C15_Witness ==
    /\ pc = "ttc_done"
    /\ distance = 7 /\ relative_velocity = 0
    /\ ttc.inf

\* C16: past the warm-up, the iteration that first reads a distance below
\* 2.5 m (the flag is not yet set) commands throttle 0 and brake 1.
C16_LatchBeforeControl ==
    [][ (/\ IterationStep /\ pc' = "loop"
         /\ tick' > 40
         /\ ~collision
         /\ distance' < 25)
        => (ctrl'.throttle = Tenths(0) /\ ctrl'.brake = Tenths(10)) ]_vars

\* C17: every ego command given in an iteration that starts with the
\* collision flag set is throttle 0 and brake 1.
C17_CollisionTerminal ==
    [][ (IterationStep /\ pc' = "loop" /\ collision)
        => (ctrl'.throttle = Tenths(0) /\ ctrl'.brake = Tenths(10)) ]_vars

\* C17 witness: past the warm-up, Connected, the flag latched earlier, the
\* distance back above 2.5 m and a frame without emergency: full brake.
C17_Witness ==
    /\ pc = "loop" /\ tick > WARMUP_TICK /\ LinkState = "Connected"
    /\ collision /\ distance >= 25
    /\ recv_result.kind = "frame"
    /\ ~sim_data.Emergency_Brake /\ ~sim_data.egoCarStop
    /\ ctrl.throttle = Tenths(0) /\ ctrl.brake = Tenths(10)

\* C18: one receive_data call spends at most one timeout period (50 ms)
\* blocked in recv, however the controller's bytes are spread in time.
C18_SingleDeadline ==
    rd_waited <= RECV_TIMEOUT

\* C19: every frame receive_data returns is made of the five values of one
\* single frame the controller wrote, in wire order, whatever earlier calls
\* consumed.
C19_FrameAligned ==
    rd_kind = "frame" =>
        \E f \in 1..MaxFrames : rd_values = FrameValues(f)

====
